---------------------------- MODULE Spec2Model ----------------------------
(***************************************************************************)
(* Model of the nornir-automation drift-detection pipeline:                *)
(*   tasks/config_validation.py  (ConfigValidator)                         *)
(*   tasks/inventory_manager.py  (InventoryManager)                        *)
(* A configuration text is a sequence of one-character strings, so that    *)
(* str.strip() and str.split('\n') are modelled by what they do.           *)
(***************************************************************************)
EXTENDS Integers, Sequences, FiniteSets, TLC

(***************************************************************************)
(* Bounds of the model.                                                    *)
(***************************************************************************)
MaxTextLen == 4
MaxClock == 1
MaxRuns == 1
MaxHistoryRuns == 2
MaxReports == 2

(***************************************************************************)
(* Texts.                                                                  *)
(***************************************************************************)
Chars == {"x", " ", "\n"}

BoundedSeq(S, n) == UNION {[1..k -> S] : k \in 0..n}

\* The "Concrete scenario" texts: line1..line4 are the one-character lines 1..4.
ExampleSot == <<"1", "\n", "2", "\n", "3">>
ExampleLive == <<"2", "\n", "3", "\n", "4">>

Texts == BoundedSeq(Chars, MaxTextLen) \cup {ExampleSot, ExampleLive}

\* The few texts the pipeline specifications draw from.
SysTexts == {<<>>, <<"x">>}

\* The characters str.strip() removes (of those in Chars).
IsSpace(c) == c \in {" ", "\n"}

RECURSIVE LStrip(_)
LStrip(s) == IF s = <<>> THEN s
             ELSE IF IsSpace(Head(s)) THEN LStrip(Tail(s)) ELSE s

RECURSIVE RStrip(_)
RStrip(s) == IF s = <<>> THEN s
             ELSE IF IsSpace(s[Len(s)]) THEN RStrip(SubSeq(s, 1, Len(s) - 1)) ELSE s

\* str.strip(): both ends of the whole text.
Strip(s) == RStrip(LStrip(s))

\* str.split('\n'): the sequence of lines; the empty text has one empty line.
RECURSIVE Split(_)
Split(s) ==
    LET idx == {i \in 1..Len(s) : s[i] = "\n"}
    IN IF idx = {} THEN <<s>>
       ELSE LET i == CHOOSE j \in idx : \A k \in idx : j <= k
            IN <<SubSeq(s, 1, i - 1)>> \o Split(SubSeq(s, i + 1, Len(s)))

Range(f) == {f[i] : i \in DOMAIN f}

\* set(text.strip().split('\n'))
LineSet(text) == Range(Split(Strip(text)))

(***************************************************************************)
(* Python values.                                                          *)
(***************************************************************************)
\* Optional[str]
None == [some |-> FALSE, val |-> <<>>]
Some(text) == [some |-> TRUE, val |-> text]

\* `x is None` for an Optional[str].
IsNone(opt) == ~opt.some

\* `not x` for an Optional[str]: None and the empty string are both falsy.
Falsy(opt) == ~opt.some \/ opt.val = <<>>

\* A dict keyed by config type; {} is the function with the empty domain.
EmptyDict == <<>>
DictGet(d, k, default) == IF k \in DOMAIN d THEN d[k] ELSE default

CfgTypes == {"running", "startup", "candidate"}
Devices == {"rtr-01", "sw-01", "fw-01"}

MsgNoSot == "No source of truth configuration found"

\* A result dict; `keys` is the set of keys the dict holds (the other fields
\* then carry a filler value).
ErrorKeys == {"device", "status", "message", "drift_detected", "issues"}
SuccessKeys == {"device", "status", "drift_detected", "issues",
                "missing_lines", "extra_lines", "timestamp"}

NoSotResult(device) ==
    [keys |-> ErrorKeys, device |-> device, status |-> "error",
     message |-> MsgNoSot, drift_detected |-> FALSE, issues |-> <<>>,
     missing_lines |-> {}, extra_lines |-> {}, timestamp |-> 0]

\* f"Missing {n} lines from source of truth" / f"Extra {n} lines not in source of truth"
IssueMissingAsExtra(n) == <<"Extra", n, "lines not in source of truth">>
IssueMissing(n) == <<"Missing", n, "lines from source of truth">>
IssueExtra(n) == <<"Extra", n, "lines not in source of truth">>

\* sot_lines - live_lines (line 227), and the same with the operands swapped.
MissingInLiveSwapped(sot_lines, live_lines) == live_lines \ sot_lines
MissingInLive(sot_lines, live_lines) == sot_lines \ live_lines

\* live_lines - sot_lines (line 228).
ExtraInLive(sot_lines, live_lines) == live_lines \ sot_lines

\* compare_configurations, lines 222-246: the set comparison.
DiffResult(device, live_config, sot_config, now) ==
    LET live_lines == LineSet(live_config)
        sot_lines == LineSet(sot_config)
        missing_in_live == MissingInLive(sot_lines, live_lines)
        extra_in_live == ExtraInLive(sot_lines, live_lines)
    IN [keys |-> SuccessKeys, device |-> device, status |-> "success",
        message |-> "",
        drift_detected |-> (Cardinality(missing_in_live) > 0
                            \/ Cardinality(extra_in_live) > 0),
        issues |-> (IF missing_in_live # {}
                    THEN <<IssueMissing(Cardinality(missing_in_live))>> ELSE <<>>)
                   \o (IF extra_in_live # {}
                       THEN <<IssueExtra(Cardinality(extra_in_live))>> ELSE <<>>),
        missing_lines |-> missing_in_live, extra_lines |-> extra_in_live,
        timestamp |-> now]

\* compare_configurations, lines 206-246, given what get_device_config and
\* load_source_of_truth_config returned.
CompareResult(device, config_type, live_configs, sot_config, now) ==
    LET live_config == DictGet(live_configs, config_type, <<>>)
    IN IF Falsy(sot_config) THEN NoSotResult(device)
       ELSE DiffResult(device, live_config, sot_config.val, now)


(***************************************************************************)
(* Inventory records (tasks/inventory_manager.py).                         *)
(***************************************************************************)
\* A hosts.yaml entry: name -> {hostname, groups, data: {vendor, device_type}}.
\* The mapping keeps insertion order, so the record is a sequence of entries.
HostEntry(name, hostname, groups, vendor, device_type) ==
    [name |-> name, hostname |-> hostname, groups |-> groups,
     vendor |-> vendor, device_type |-> device_type]

\* _create_default_inventory: the two default hosts.
DefaultHosts ==
    << HostEntry("rtr-01", "192.168.1.1", <<"routers", "cisco">>, "cisco", "ios"),
       HostEntry("sw-01", "192.168.1.2", <<"switches", "cisco">>, "cisco", "ios") >>

HostNames(hosts) == [i \in DOMAIN hosts |-> hosts[i].name]
HasHost(hosts, name) == \E i \in DOMAIN hosts : hosts[i].name = name

\* hosts[name] = entry on a dict: replace in place, or append a new key.
DictSet(hosts, entry) ==
    IF HasHost(hosts, entry.name)
    THEN [i \in DOMAIN hosts |-> IF hosts[i].name = entry.name THEN entry ELSE hosts[i]]
    ELSE Append(hosts, entry)

RECURSIVE DictDel(_, _)
\* del hosts[name]
DictDel(hosts, name) ==
    IF hosts = <<>> THEN <<>>
    ELSE IF Head(hosts).name = name THEN DictDel(Tail(hosts), name)
         ELSE <<Head(hosts)>> \o DictDel(Tail(hosts), name)

(***************************************************************************)
(* Vendor -> driver mapping.  Manufacturer names are matched by substring, *)
(* so each name used is spelled out in characters.                         *)
(***************************************************************************)
CharsOf(s) ==
    CASE s = "cisco" -> <<"c", "i", "s", "c", "o">>
      [] s = "juniper" -> <<"j", "u", "n", "i", "p", "e", "r">>
      [] s = "arista" -> <<"a", "r", "i", "s", "t", "a">>
      [] s = "hp" -> <<"h", "p">>
      [] s = "huawei" -> <<"h", "u", "a", "w", "e", "i">>
      [] s = "fortinet" -> <<"f", "o", "r", "t", "i", "n", "e", "t">>
      [] s = "palo alto" -> <<"p", "a", "l", "o", " ", "a", "l", "t", "o">>
      [] s = "mikrotik" -> <<"m", "i", "k", "r", "o", "t", "i", "k">>
      [] s = "f5" -> <<"f", "5">>
      [] s = "nxos" -> <<"n", "x", "o", "s">>
      [] s = "iosxr" -> <<"i", "o", "s", "x", "r">>
      [] s = "cisco nxos" -> <<"c", "i", "s", "c", "o", " ", "n", "x", "o", "s">>
      [] s = "acme" -> <<"a", "c", "m", "e">>
      [] s = "juniper networks" -> <<"j", "u", "n", "i", "p", "e", "r", " ", "n", "e", "t", "w", "o", "r", "k", "s">>
      [] s = "palo alto networks" -> <<"p", "a", "l", "o", " ", "a", "l", "t", "o", " ", "n", "e", "t", "w", "o", "r", "k", "s">>
      [] s = "nxos by arista" -> <<"n", "x", "o", "s", " ", "b", "y", " ", "a", "r", "i", "s", "t", "a">>
      [] s = "f5 on hp" -> <<"f", "5", " ", "o", "n", " ", "h", "p">>
      [] s = "hewlett packard" -> <<"h", "e", "w", "l", "e", "t", "t", " ", "p", "a", "c", "k", "a", "r", "d">>
      [] s = "" -> <<>>

\* str.lower() on the names the remote source sends.
Lower(s) ==
    CASE s = "Cisco" -> "cisco"
      [] s = "Fortinet" -> "fortinet"
      [] s = "Cisco NXOS" -> "cisco nxos"
      [] s = "Acme" -> "acme"
      [] s = "Juniper Networks" -> "juniper networks"
      [] s = "Arista" -> "arista"
      [] s = "HP" -> "hp"
      [] s = "Huawei" -> "huawei"
      [] s = "Palo Alto Networks" -> "palo alto networks"
      [] s = "MikroTik" -> "mikrotik"
      [] s = "F5" -> "f5"
      [] s = "NXOS" -> "nxos"
      [] s = "IOSXR" -> "iosxr"
      [] s = "NXOS by Arista" -> "nxos by arista"
      [] s = "F5 on HP" -> "f5 on hp"
      [] s = "Hewlett Packard" -> "hewlett packard"
      [] s = "Firewall" -> "firewall"
      [] s = "Router" -> "router"
      [] OTHER -> s

\* `key in text` on strings.
Contains(key, text) ==
    \E i \in 0..(Len(text) - Len(key)) : SubSeq(text, i + 1, i + Len(key)) = key

\* The mapping dict of _map_manufacturer_to_driver, in declaration order.
DriverMapping ==
    << <<"cisco", "ios">>, <<"juniper", "junos">>, <<"arista", "eos">>,
       <<"hp", "procurve">>, <<"huawei", "vrp">>, <<"fortinet", "fortios">>,
       <<"palo alto", "panos">>, <<"mikrotik", "ros">>, <<"f5", "f5">>,
       <<"nxos", "nxos">>, <<"iosxr", "iosxr">> >>

\* The lookup that keeps the last key contained in the name.
MapManufacturerToDriverLastMatch(manufacturer) ==
    LET m == CharsOf(Lower(manufacturer))
        hits == {i \in DOMAIN DriverMapping : Contains(CharsOf(DriverMapping[i][1]), m)}
    IN IF hits = {} THEN "ios"
       ELSE DriverMapping[CHOOSE i \in hits : \A j \in hits : j <= i][2]

\* _map_manufacturer_to_driver: the first key contained in the lower-cased
\* name, "ios" when none is.
MapManufacturerToDriver(manufacturer) ==
    LET m == CharsOf(Lower(manufacturer))
        hits == {i \in DOMAIN DriverMapping : Contains(CharsOf(DriverMapping[i][1]), m)}
    IN IF hits = {} THEN "ios"
       ELSE DriverMapping[CHOOSE i \in hits : \A j \in hits : i <= j][2]

\* A device of the remote listing: name, primary_ip.address, display,
\* device_type.manufacturer.name, device_role.name.
RemoteDevice(name, address, display, manufacturer, role) ==
    [name |-> name, address |-> address, display |-> display,
     manufacturer |-> manufacturer, role |-> role]

\* A JSON null where an object is expected: device.get("device_type", {}) then
\* returns None, and None.get(...) raises AttributeError (lines 91-92 / 155-156).
JsonNull == "<null>"

\* The host entry sync builds from one remote device (lines 84-113 / 148-177).
\* address.split("/")[0] is given by the remote record's address without prefix.
MapRemoteDevice(dev) ==
    LET manufacturer == Lower(dev.manufacturer)
        device_role == Lower(dev.role)
    IN HostEntry(dev.name,
                 IF dev.address # "" THEN dev.address ELSE dev.display,
                 IF device_role # "" /\ manufacturer # ""
                 THEN <<device_role, manufacturer>> ELSE <<>>,
                 manufacturer,
                 MapManufacturerToDriver(manufacturer))

RECURSIVE MapRemoteDevices(_)
\* The sync loop: devices without a name are skipped, a repeated name overwrites.
MapRemoteDevices(devs) ==
    IF devs = <<>> THEN <<>>
    ELSE LET rest == MapRemoteDevices(SubSeq(devs, 1, Len(devs) - 1))
             dev == devs[Len(devs)]
         IN IF dev.name = "" THEN rest ELSE DictSet(rest, MapRemoteDevice(dev))

\* What the remote listing may answer: a failure, or a device list.
RemoteResponses ==
    { [ok |-> FALSE, devices |-> <<>>],
      [ok |-> TRUE, devices |-> <<>>],
      [ok |-> TRUE,
       devices |-> << RemoteDevice("fw-01", "10.0.0.1", "fw-01", "Fortinet", "Firewall"),
                      RemoteDevice("", "", "unnamed", "Cisco", "Router") >>],
      [ok |-> TRUE,
       devices |-> << RemoteDevice("rtr-01", "", "rtr-01", "Cisco NXOS", "Router"),
                      RemoteDevice("sw-01", "10.0.0.2", "sw-01", "Acme", "") >>],
      [ok |-> TRUE,
       devices |-> << RemoteDevice("fw-01", "10.0.0.1", "fw-01", "Fortinet", "Firewall"),
                      RemoteDevice("sw-01", "10.0.0.2", "sw-01", JsonNull, "") >>] }

(***************************************************************************)
(* State.                                                                  *)
(***************************************************************************)
VARIABLES
    hostsFile,      \* inventory/hosts.yaml: [exists, hosts]
    groupsFile,     \* inventory/groups.yaml: "absent" | "ok" | "corrupt"
    defaultsFile,   \* inventory/defaults.yaml: "absent" | "ok" | "corrupt"
    nr,             \* ConfigValidator.nr, the inventory InitNornir loaded: [ready, hosts]
    baselines,      \* configs/<device>_<type>.txt: (device, type) -> text
    metadata,       \* configs/<device>_<type>_metadata.json: (device, type) -> record
    live,           \* the devices' configurations, as the gateway would fetch them
    gwDown,         \* the devices whose gateway fetch fails
    clock,          \* datetime.now(), in seconds
    resultsFiles,   \* configs/validation_results_<timestamp>.json: timestamp -> batch
    runs,           \* history variable: the number of runs that reached their save
    reportsDir,     \* reports/validation_report_<timestamp>.<ext>: (timestamp, ext) -> report
    pending,        \* inventory operations between their load and their save
    ret             \* the last operation: its name, arguments and return value

vars == <<hostsFile, groupsFile, defaultsFile, nr, baselines, metadata, live,
          gwDown, clock, resultsFiles, runs, reportsDir, pending, ret>>

invVars == <<hostsFile, groupsFile, defaultsFile>>
storeVars == <<baselines, metadata>>
gwVars == <<live, gwDown>>

\* What every device answers in the pipeline specifications.
DefaultLive ==
    [d \in Devices |-> [running |-> <<"x", "\n", "x", "x">>,
                        startup |-> <<"x">>,
                        candidate |-> <<>>]]

NoRet == [op |-> "none"]

\* A fresh deployment: no file written, no validator constructed.
Init ==
    /\ hostsFile = [exists |-> FALSE, hosts |-> <<>>]
    /\ groupsFile = "absent"
    /\ defaultsFile = "absent"
    /\ nr = [ready |-> FALSE, hosts |-> <<>>]
    /\ baselines = <<>>
    /\ metadata = <<>>
    /\ live = DefaultLive
    /\ gwDown = {}
    /\ clock = 0
    /\ resultsFiles = <<>>
    /\ runs = 0
    /\ reportsDir = <<>>
    /\ pending = <<>>
    /\ ret = NoRet

(***************************************************************************)
(* ConfigValidator (tasks/config_validation.py).                           *)
(***************************************************************************)
\* __init__ / _init_nornir / _create_default_inventory: each missing inventory
\* file is written with its default, then InitNornir loads the inventory once.
\* InitNornir raises on a file it cannot parse, and _init_nornir re-raises
\* (lines 56-58): no validator is constructed then.
NewValidator ==
    /\ hostsFile' = IF hostsFile.exists THEN hostsFile
                    ELSE [exists |-> TRUE, hosts |-> DefaultHosts]
    /\ groupsFile' = IF groupsFile = "absent" THEN "ok" ELSE groupsFile
    /\ defaultsFile' = IF defaultsFile = "absent" THEN "ok" ELSE defaultsFile
    /\ IF groupsFile = "corrupt" \/ defaultsFile = "corrupt"
       THEN /\ nr' = nr
            /\ ret' = [op |-> "init", raised |-> TRUE]
       ELSE /\ nr' = [ready |-> TRUE, hosts |-> hostsFile'.hosts]
            /\ ret' = [op |-> "init", raised |-> FALSE]
    /\ UNCHANGED <<reportsDir, pending, storeVars, gwVars, clock, resultsFiles, runs>>

\* get_device_config: {} when the device is not in self.nr (KeyError), when
\* the napalm task failed, or on any exception; else the three texts.
GetDeviceConfig(inv, down, cfgs, device_name) ==
    IF ~HasHost(inv.hosts, device_name) \/ device_name \in down
    THEN EmptyDict
    ELSE cfgs[device_name]

\* load_source_of_truth_config: the text, None when the file does not exist.
LoadSourceOfTruthConfig(store, device_name, config_type) ==
    IF <<device_name, config_type>> \in DOMAIN store
    THEN Some(store[<<device_name, config_type>>])
    ELSE None

\* compare_configurations in the state given.
CompareConfigurations(inv, down, cfgs, store, now, device_name, config_type) ==
    CompareResult(device_name, config_type,
                  GetDeviceConfig(inv, down, cfgs, device_name),
                  LoadSourceOfTruthConfig(store, device_name, config_type),
                  now)

\* f[k] = v on a mapping that may not hold k yet.
Put(f, k, v) == [x \in DOMAIN f \cup {k} |-> IF x = k THEN v ELSE f[x]]

\* open(config_file, 'w') and f.write(config) (lines 168-169), and the same
\* with the file kept when it exists, or opened for appending.
WriteTextKeepFirst(store, key, config) ==
    IF key \in DOMAIN store THEN store ELSE Put(store, key, config)
WriteTextAppending(store, key, config) ==
    IF key \in DOMAIN store THEN Put(store, key, store[key] \o config)
    ELSE Put(store, key, config)
WriteText(store, key, config) == Put(store, key, config)

\* save_source_of_truth_config.  fail = "text": the text file cannot be opened;
\* fail = "metadata": the text is written, the metadata file cannot be.
SaveSourceOfTruthConfig(device_name, config, config_type, fail) ==
    LET key == <<device_name, config_type>>
    IN /\ nr.ready
       /\ baselines' = IF fail = "text" THEN baselines ELSE WriteText(baselines, key, config)
       /\ metadata' = IF fail # "none" THEN metadata
                      ELSE Put(metadata, key,
                               [device |-> device_name, config_type |-> config_type,
                                timestamp |-> clock, source |-> "manual"])
       /\ ret' = [op |-> "save_sot", device |-> device_name,
                  config_type |-> config_type, config |-> config,
                  before |-> LoadSourceOfTruthConfig(baselines, device_name, config_type),
                  text_written |-> (fail # "text"), value |-> (fail = "none")]
       /\ UNCHANGED <<reportsDir, pending, invVars, nr, gwVars, clock, resultsFiles, runs>>

\* A comparison that saves the fetched text as the baseline when none exists.
CompareAutoCreate(device_name, config_type) ==
    LET fetched == GetDeviceConfig(nr, gwDown, live, device_name)
        key == <<device_name, config_type>>
    IN /\ nr.ready
       /\ ret' = [op |-> "compare", device |-> device_name, config_type |-> config_type,
                  gateway_failed |-> (device_name \in gwDown),
                  fetched |-> fetched,
                  sot |-> LoadSourceOfTruthConfig(baselines, device_name, config_type),
                  value |-> CompareConfigurations(nr, gwDown, live, baselines, clock,
                                                  device_name, config_type)]
       /\ baselines' = IF key \in DOMAIN baselines \/ config_type \notin DOMAIN fetched
                       THEN baselines
                       ELSE WriteText(baselines, key, fetched[config_type])
       /\ UNCHANGED <<reportsDir, pending, invVars, nr, metadata, gwVars, clock, resultsFiles, runs>>

\* One call of compare_configurations.
Compare(device_name, config_type) ==
    /\ nr.ready
    /\ ret' = [op |-> "compare", device |-> device_name, config_type |-> config_type,
               gateway_failed |-> (device_name \in gwDown),
               fetched |-> GetDeviceConfig(nr, gwDown, live, device_name),
               sot |-> LoadSourceOfTruthConfig(baselines, device_name, config_type),
               value |-> CompareConfigurations(nr, gwDown, live, baselines, clock,
                                               device_name, config_type)]
    /\ UNCHANGED <<reportsDir, pending, invVars, nr, storeVars, gwVars, clock, resultsFiles, runs>>

\* Nornir's Inventory.filter(**kwargs), as called at lines 144 and 265: it keeps
\* the hosts h with h.get(key) == value for the keyword given, where h.get
\* reads an attribute or a data key of that very name (no lookup operator is
\* parsed out of the keyword: that is what an F object does, and none is used).
HostAttrEquals(h, key, value) == key \in DOMAIN h /\ h[key] = value

\* The device set of a run (lines 262-265), in inventory order.  No host has
\* an attribute or data key named groups__contains.
SelectDevices(inv, device_group) ==
    IF device_group = "all" THEN HostNames(inv.hosts)
    ELSE HostNames(SelectSeq(inv.hosts,
                             LAMBDA h : HostAttrEquals(h, "groups__contains", device_group)))

\* The expansion of "all" with the candidate configuration included.
ConfigTypesWithCandidate(config_type) ==
    IF config_type = "all" THEN <<"running", "startup", "candidate">> ELSE <<config_type>>

\* The config types of a run (lines 272-275).
ConfigTypes(config_type) ==
    IF config_type = "all" THEN <<"running", "startup">> ELSE <<config_type>>

RECURSIVE CompareAll(_, _, _, _, _, _, _)
\* The loops of lines 269-279: one result per device and config type, in order.
CompareAll(inv, down, cfgs, store, now, devices, config_types) ==
    IF devices = <<>> THEN <<>>
    ELSE [i \in DOMAIN config_types |->
              CompareConfigurations(inv, down, cfgs, store, now,
                                    Head(devices), config_types[i])]
         \o CompareAll(inv, down, cfgs, store, now, Tail(devices), config_types)

\* _save_validation_results: the batch is written under the second it is saved
\* in; a failure is logged and nothing is written.
SaveValidationResults(files, now, results, fail) ==
    IF fail THEN files ELSE Put(files, now, results)

\* A run that leaves the batch unsaved when it is a dry run.
RunOutcomeDrySkipsSave(device_group, config_type, dry_run, fail) ==
    LET devices == SelectDevices(nr, device_group)
        results == CompareAll(nr, gwDown, live, baselines, clock,
                              devices, ConfigTypes(config_type))
    IN [devices |-> devices, value |-> results,
        files |-> IF dry_run THEN resultsFiles
                  ELSE SaveValidationResults(resultsFiles, clock, results, fail)]

\* The try body of validate_configurations (lines 261-286): the devices, the
\* batch returned and the batch files left behind.  dry_run is a parameter
\* the body never reads.
RunOutcome(device_group, config_type, dry_run, fail) ==
    LET devices == SelectDevices(nr, device_group)
        results == CompareAll(nr, gwDown, live, baselines, clock,
                              devices, ConfigTypes(config_type))
    IN [devices |-> devices, value |-> results,
        files |-> SaveValidationResults(resultsFiles, clock, results, fail)]

\* validate_configurations.
Validate(device_group, config_type, dry_run, fail) ==
    LET out == RunOutcome(device_group, config_type, dry_run, fail)
        devices == out.devices
        results == out.value
    IN /\ nr.ready
       /\ resultsFiles' = out.files
       /\ runs' = runs + 1
       /\ ret' = [op |-> "validate", device_group |-> device_group,
                  config_type |-> config_type, dry_run |-> dry_run,
                  devices |-> devices, down |-> gwDown, write_failed |-> fail,
                  raised |-> FALSE, value |-> results]
       /\ UNCHANGED <<reportsDir, pending, invVars, nr, storeVars, gwVars, clock>>

\* The exceptions that can escape the try body of validate_configurations.
\* compare_configurations and _save_validation_results catch their own, so
\* what is left is raised by the runtime or a library inside the loop.
RunExceptions == {"MemoryError"}

\* f"Validation error: {str(e)}"
IssueValidationError(e) == <<"Validation error", e>>

\* What the except clause of validate_configurations returns (lines 288-294),
\* and an except clause that returns no result at all.
ValidationFailureEmpty(e) == <<>>
ValidationFailure(e) ==
    << [keys |-> ErrorKeys, device |-> "unknown", status |-> "error",
        message |-> e, drift_detected |-> FALSE, issues |-> <<IssueValidationError(e)>>,
        missing_lines |-> {}, extra_lines |-> {}, timestamp |-> 0] >>

\* A failed run whose except clause also saves the result it returns.
ValidateRaisesSavesSentinel(device_group, config_type, dry_run, e) ==
    /\ nr.ready
    /\ resultsFiles' = SaveValidationResults(resultsFiles, clock, ValidationFailure(e), FALSE)
    /\ ret' = [op |-> "validate", device_group |-> device_group,
               config_type |-> config_type, dry_run |-> dry_run,
               devices |-> <<>>, down |-> gwDown, write_failed |-> FALSE,
               raised |-> TRUE, value |-> ValidationFailure(e)]
    /\ UNCHANGED <<reportsDir, pending, invVars, nr, storeVars, gwVars, clock, runs>>

\* validate_configurations when exception e escapes device resolution or the
\* loop: nothing has been saved, and the except clause builds the return value.
ValidateRaises(device_group, config_type, dry_run, e) ==
    /\ nr.ready
    /\ ret' = [op |-> "validate", device_group |-> device_group,
               config_type |-> config_type, dry_run |-> dry_run,
               devices |-> <<>>, down |-> gwDown, write_failed |-> FALSE,
               raised |-> TRUE, value |-> ValidationFailure(e)]
    /\ UNCHANGED <<reportsDir, pending, invVars, nr, storeVars, gwVars, clock, resultsFiles, runs>>

\* get_validation_history: the saved batches, newest file name first.
RECURSIVE HistoryOf(_, _)
HistoryOf(files, stamps) ==
    IF stamps = {} THEN <<>>
    ELSE LET t == CHOOSE x \in stamps : \A y \in stamps : y <= x
         IN <<[timestamp |-> t, results |-> files[t]]>> \o HistoryOf(files, stamps \ {t})

GetValidationHistory == HistoryOf(resultsFiles, DOMAIN resultsFiles)

(***************************************************************************)
(* The environment: the devices and the clock.  ret holds the value an      *)
(* operation has just returned, so a step of the environment clears it.    *)
(***************************************************************************)
GatewayFail(d) ==
    /\ d \notin gwDown
    /\ gwDown' = gwDown \cup {d}
    /\ ret' = NoRet
    /\ UNCHANGED <<reportsDir, pending, invVars, nr, storeVars, live, clock, resultsFiles, runs>>

GatewayRecover(d) ==
    /\ d \in gwDown
    /\ gwDown' = gwDown \ {d}
    /\ ret' = NoRet
    /\ UNCHANGED <<reportsDir, pending, invVars, nr, storeVars, live, clock, resultsFiles, runs>>

Tick ==
    /\ clock < MaxClock
    /\ clock' = clock + 1
    /\ ret' = NoRet
    /\ UNCHANGED <<reportsDir, pending, invVars, nr, storeVars, gwVars, resultsFiles, runs>>

(***************************************************************************)
(* InventoryManager (tasks/inventory_manager.py).                          *)
(***************************************************************************)
\* get_inventory()["hosts"]: the stored hosts; a missing file gives {}, and an
\* exception while reading any of the three files gives {} for all of them.
GetInventoryHosts ==
    IF groupsFile = "corrupt" \/ defaultsFile = "corrupt" THEN <<>>
    ELSE IF hostsFile.exists THEN hostsFile.hosts ELSE <<>>

\* _save_hosts_inventory: a failure is logged, and the file is left as it was.
SaveHostsInventory(file, hosts, fail) ==
    IF fail THEN file ELSE [exists |-> TRUE, hosts |-> hosts]

\* add_device: load, set the entry, save, return True.
AddDevice(device_name, hostname, groups, vendor, device_type, fail) ==
    LET hosts == DictSet(GetInventoryHosts,
                         HostEntry(device_name, hostname, groups, vendor, device_type))
    IN /\ hostsFile' = SaveHostsInventory(hostsFile, hosts, fail)
       /\ ret' = [op |-> "add_device", device |-> device_name,
                  write_failed |-> fail, value |-> TRUE]
       /\ UNCHANGED <<reportsDir, pending, groupsFile, defaultsFile, nr, storeVars, gwVars, clock,
                      resultsFiles, runs>>

\* remove_device without the membership test: the hosts are saved and True is
\* returned whether or not the device was there.
RemoveDeviceAlwaysSaves(device_name, fail) ==
    LET hosts == GetInventoryHosts
    IN /\ hostsFile' = SaveHostsInventory(hostsFile, DictDel(hosts, device_name), fail)
       /\ ret' = [op |-> "remove_device", device |-> device_name,
                  write_failed |-> fail, value |-> TRUE]
       /\ UNCHANGED <<reportsDir, pending, groupsFile, defaultsFile, nr, storeVars,
                      gwVars, clock, resultsFiles, runs>>

\* remove_device: load, delete the entry and save, or report False.
RemoveDevice(device_name, fail) ==
    LET hosts == GetInventoryHosts
    IN /\ IF HasHost(hosts, device_name)
          THEN /\ hostsFile' = SaveHostsInventory(hostsFile, DictDel(hosts, device_name), fail)
               /\ ret' = [op |-> "remove_device", device |-> device_name,
                          write_failed |-> fail, value |-> TRUE]
          ELSE /\ hostsFile' = hostsFile
               /\ ret' = [op |-> "remove_device", device |-> device_name,
                          write_failed |-> FALSE, value |-> FALSE]
       /\ UNCHANGED <<reportsDir, pending, groupsFile, defaultsFile, nr, storeVars, gwVars, clock,
                      resultsFiles, runs>>

\* The conversion loop raises on a named device whose device_type is null.
ConversionRaises(devs) ==
    \E i \in DOMAIN devs : devs[i].name # "" /\ devs[i].manufacturer = JsonNull

\* The sync without response.raise_for_status(): the body of a failed request
\* is converted and written like any other.
SyncFromUnchecked(source, response, fail) ==
    /\ hostsFile' = SaveHostsInventory(hostsFile, MapRemoteDevices(response.devices), fail)
    /\ ret' = [op |-> "sync", source |-> source, response |-> response,
               write_failed |-> fail, value |-> TRUE]
    /\ UNCHANGED <<reportsDir, pending, groupsFile, defaultsFile, nr, storeVars, gwVars, clock,
                   resultsFiles, runs>>

\* sync_from_netbox / sync_from_nautobot: a failed request, or an exception in
\* the conversion loop, returns False before anything is written; else the
\* mapped devices replace the stored hosts and True is returned.
SyncFrom(source, response, fail) ==
    /\ IF ~response.ok \/ ConversionRaises(response.devices)
       THEN /\ hostsFile' = hostsFile
            /\ ret' = [op |-> "sync", source |-> source, response |-> response,
                       write_failed |-> FALSE, value |-> FALSE]
       ELSE /\ hostsFile' = SaveHostsInventory(hostsFile,
                                               MapRemoteDevices(response.devices), fail)
            /\ ret' = [op |-> "sync", source |-> source, response |-> response,
                       write_failed |-> fail, value |-> TRUE]
    /\ UNCHANGED <<reportsDir, pending, groupsFile, defaultsFile, nr, storeVars, gwVars, clock,
                   resultsFiles, runs>>

SyncFromNetbox(response, fail) == SyncFrom("netbox", response, fail)
SyncFromNautobot(response, fail) == SyncFrom("nautobot", response, fail)

(***************************************************************************)
(* The inventory operations step by step: the load (get_inventory, or the  *)
(* remote listing of a sync) and the save (_save_hosts_inventory) of one   *)
(* operation are two steps, and other callers' steps may come between.     *)
(* Nothing in the code locks the hosts record.  The save itself, open for  *)
(* writing and yaml.dump, is one step.                                     *)
(***************************************************************************)
\* The callers that operate on the inventory at the same time.
Processes == {1, 2}

RECURSIVE MergeHosts(_, _)
\* hosts with every entry of more set in it.
MergeHosts(hosts, more) ==
    IF more = <<>> THEN hosts
    ELSE MergeHosts(DictSet(hosts, Head(more)), Tail(more))

\* A caller that holds no operation yet.
Idle(p) == p \notin DOMAIN pending

\* add_device up to its save (lines 229-241): the entry is set in the hosts
\* the caller loaded.
BeginAddDevice(p, device_name, hostname, groups, vendor, device_type) ==
    LET entry == HostEntry(device_name, hostname, groups, vendor, device_type)
    IN /\ Idle(p)
       /\ pending' = Put(pending, p,
                         [pc |-> "loaded", op |-> "add_device", arg |-> entry,
                          loaded |-> GetInventoryHosts,
                          hosts |-> DictSet(GetInventoryHosts, entry),
                          write_failed |-> FALSE])
       /\ ret' = [op |-> "load", process |-> p]
       /\ UNCHANGED <<invVars, nr, storeVars, gwVars, clock, resultsFiles, runs, reportsDir>>

\* remove_device up to its save (lines 257-261); a device that is not in the
\* hosts loaded ends the operation with False at once.
BeginRemoveDevice(p, device_name) ==
    /\ Idle(p)
    /\ IF HasHost(GetInventoryHosts, device_name)
       THEN /\ pending' = Put(pending, p,
                              [pc |-> "loaded", op |-> "remove_device", arg |-> device_name,
                               loaded |-> GetInventoryHosts,
                               hosts |-> DictDel(GetInventoryHosts, device_name),
                               write_failed |-> FALSE])
            /\ ret' = [op |-> "load", process |-> p]
       ELSE /\ pending' = Put(pending, p,
                              [pc |-> "done", op |-> "remove_device", arg |-> device_name,
                               loaded |-> GetInventoryHosts, hosts |-> GetInventoryHosts,
                               write_failed |-> FALSE])
            /\ ret' = [op |-> "remove_device", process |-> p, device |-> device_name,
                       write_failed |-> FALSE, value |-> FALSE]
    /\ UNCHANGED <<invVars, nr, storeVars, gwVars, clock, resultsFiles, runs, reportsDir>>

\* A sync up to its save (lines 63-113 / 127-177): the listing is fetched and
\* converted; a failed request or conversion ends the operation with False.
BeginSync(p, source, response) ==
    /\ Idle(p)
    /\ IF ~response.ok \/ ConversionRaises(response.devices)
       THEN /\ pending' = Put(pending, p,
                              [pc |-> "done", op |-> "sync", arg |-> response,
                               loaded |-> <<>>, hosts |-> <<>>, write_failed |-> FALSE])
            /\ ret' = [op |-> "sync", process |-> p, source |-> source,
                       response |-> response, write_failed |-> FALSE, value |-> FALSE]
       ELSE /\ pending' = Put(pending, p,
                              [pc |-> "loaded", op |-> "sync", arg |-> response,
                               loaded |-> <<>>,
                               hosts |-> MapRemoteDevices(response.devices),
                               write_failed |-> FALSE])
            /\ ret' = [op |-> "load", process |-> p]
    /\ UNCHANGED <<invVars, nr, storeVars, gwVars, clock, resultsFiles, runs, reportsDir>>

\* A save that sets the caller's hosts in the stored ones and keeps the rest.
FinishSaveMerging(p, fail) ==
    /\ ~Idle(p) /\ pending[p].pc = "loaded"
    /\ hostsFile' = SaveHostsInventory(hostsFile,
                                       MergeHosts(IF hostsFile.exists THEN hostsFile.hosts
                                                  ELSE <<>>, pending[p].hosts),
                                       fail)
    /\ pending' = [pending EXCEPT ![p].pc = "done", ![p].write_failed = fail]
    /\ ret' = [op |-> pending[p].op, process |-> p,
               write_failed |-> fail, value |-> TRUE]
    /\ UNCHANGED <<groupsFile, defaultsFile, nr, storeVars, gwVars, clock,
                   resultsFiles, runs, reportsDir>>

\* The save and the return of an operation that loaded (lines 244-247,
\* 262-264, 116-119): the caller's hosts replace the record, and True is
\* returned whether or not the write went through.
FinishSave(p, fail) ==
    /\ ~Idle(p) /\ pending[p].pc = "loaded"
    /\ hostsFile' = SaveHostsInventory(hostsFile, pending[p].hosts, fail)
    /\ pending' = [pending EXCEPT ![p].pc = "done", ![p].write_failed = fail]
    /\ ret' = [op |-> pending[p].op, process |-> p,
               write_failed |-> fail, value |-> TRUE]
    /\ UNCHANGED <<groupsFile, defaultsFile, nr, storeVars, gwVars, clock,
                   resultsFiles, runs, reportsDir>>

(***************************************************************************)
(* ReportGenerator (tasks/report_generator.py).                            *)
(***************************************************************************)
\* The formats generate_validation_report dispatches on, in the order
\* get_report looks the extensions up.
ReportFormats == <<"json", "csv", "xlsx", "html">>

\* len([r for r in results if r.get("drift_detected", False)]), and the same
\* for status == "error" and status == "success".
DevicesWithDrift(results) == Cardinality({i \in DOMAIN results : results[i].drift_detected})
DevicesWithErrors(results) == Cardinality({i \in DOMAIN results : results[i].status = "error"})
DevicesWithSuccess(results) == Cardinality({i \in DOMAIN results : results[i].status = "success"})

\* f"{successes}/{total}" of the Summary sheet (line 105).
SuccessRatio(results) == <<DevicesWithSuccess(results), "/", Len(results)>>

\* (total - errors) / total * 100 if total > 0 else 0, as f"{rate:.1f}%"
\* prints it (lines 142 and 187): the percentage in tenths, rounded.
SuccessPercent(results) ==
    LET total_devices == Len(results)
        devices_with_errors == DevicesWithErrors(results)
    IN << IF total_devices > 0
          THEN (2000 * (total_devices - devices_with_errors) + total_devices)
                   \div (2 * total_devices)
          ELSE 0,
          "tenths of %" >>

\* What each encoder writes: `summary` holds the aggregates the report shows
\* beside the per-result rows.
GenerateJsonReport(results) ==
    [format |-> "json",
     summary |-> [total_devices |-> Len(results),
                  devices_with_drift |-> DevicesWithDrift(results),
                  devices_with_errors |-> DevicesWithErrors(results)],
     results |-> results]

GenerateCsvReport(results) ==
    [format |-> "csv", summary |-> EmptyDict, results |-> results]

GenerateXlsxReport(results) ==
    [format |-> "xlsx",
     summary |-> [total_devices |-> Len(results),
                  devices_with_drift |-> DevicesWithDrift(results),
                  devices_with_errors |-> DevicesWithErrors(results),
                  success_rate |-> SuccessRatio(results)],
     results |-> results]

GenerateHtmlReport(results) ==
    [format |-> "html",
     summary |-> [total_devices |-> Len(results),
                  devices_with_drift |-> DevicesWithDrift(results),
                  devices_with_errors |-> DevicesWithErrors(results),
                  success_rate |-> SuccessPercent(results)],
     results |-> results]

\* generate_validation_report: the encoder of the format writes
\* validation_report_<timestamp>.<format>; an unsupported format raises
\* ValueError and a failed write raises too, and the except clause logs and
\* re-raises (lines 42-44).
GenerateValidationReport(validation_results, report_format, fail) ==
    /\ IF report_format \notin Range(ReportFormats)
       THEN /\ reportsDir' = reportsDir
            /\ ret' = [op |-> "generate_report", format |-> report_format,
                       results |-> validation_results,
                       raised |-> TRUE, value |-> "ValueError"]
       ELSE IF fail
       THEN /\ reportsDir' = reportsDir
            /\ ret' = [op |-> "generate_report", format |-> report_format,
                       results |-> validation_results,
                       raised |-> TRUE, value |-> "OSError"]
       ELSE /\ reportsDir' = Put(reportsDir, <<clock, report_format>>,
                                 CASE report_format = "json" -> GenerateJsonReport(validation_results)
                                   [] report_format = "csv" -> GenerateCsvReport(validation_results)
                                   [] report_format = "xlsx" -> GenerateXlsxReport(validation_results)
                                   [] report_format = "html" -> GenerateHtmlReport(validation_results))
            /\ ret' = [op |-> "generate_report", format |-> report_format,
                       results |-> validation_results,
                       raised |-> FALSE, value |-> <<clock, report_format>>]
    /\ UNCHANGED <<invVars, nr, storeVars, gwVars, clock, resultsFiles, runs, pending>>

\* get_report: the file of the id, .json first and then .csv, .xlsx, .html;
\* when there is none FileNotFoundError is raised, and the except clause logs
\* and re-raises (lines 288-290).
GetReport(report_id) ==
    LET found == SelectSeq(ReportFormats, LAMBDA ext : <<report_id, ext>> \in DOMAIN reportsDir)
    IN /\ IF found = <<>>
          THEN ret' = [op |-> "get_report", id |-> report_id,
                       raised |-> TRUE, value |-> "FileNotFoundError"]
          ELSE ret' = [op |-> "get_report", id |-> report_id, raised |-> FALSE,
                       value |-> [id |-> report_id, format |-> Head(found),
                                  content |-> IF Head(found) = "xlsx" THEN "Binary file"
                                              ELSE reportsDir[<<report_id, Head(found)>>]]]
       /\ UNCHANGED <<invVars, nr, storeVars, gwVars, clock, resultsFiles, runs,
                      reportsDir, pending>>

(***************************************************************************)
(* Specifications.                                                         *)
(***************************************************************************)
\* The device-group and config-type selectors a run is asked for.
GroupSelectors == {"all", "routers", "cisco"}
CfgSelectors == {"all", "running", "candidate"}
SaveFailures == {"none", "text", "metadata"}

\* The validation pipeline on the default inventory: baselines are saved, the
\* devices fail and recover, comparisons and runs are made, time passes.
Next ==
    \/ NewValidator
    \/ \E d \in {"rtr-01", "sw-01"}, text \in SysTexts, fail \in SaveFailures :
            SaveSourceOfTruthConfig(d, text, "running", fail)
    \/ \E d \in {"rtr-01", "sw-01"} : GatewayFail(d)
    \/ \E d \in {"rtr-01", "sw-01"} : GatewayRecover(d)
    \/ \E d \in {"rtr-01", "fw-01"}, t \in {"running", "startup"} : Compare(d, t)
    \/ \E g \in GroupSelectors, t \in CfgSelectors, dry \in BOOLEAN, fail \in BOOLEAN :
            runs < MaxRuns /\ Validate(g, t, dry, fail)
    \/ Tick

Spec == Init /\ [][Next]_vars

\* The validation history: runs follow one another, in the same second or not.
NextHistory ==
    \/ NewValidator
    \/ \E g \in {"all", "routers"}, t \in {"all", "running"}, fail \in BOOLEAN :
            runs < MaxHistoryRuns /\ Validate(g, t, TRUE, fail)
    \/ Tick

SpecHistory == Init /\ [][NextHistory]_vars

\* The arguments of add_device the inventory specification draws from.
NewEntries ==
    { HostEntry("fw-01", "192.168.1.20", <<"firewalls", "fortinet">>, "fortinet", "fortios") }

\* The inventory operations beside one long-lived validator.
NextInventory ==
    \/ NewValidator
    \/ \E e \in NewEntries, fail \in BOOLEAN :
            AddDevice(e.name, e.hostname, e.groups, e.vendor, e.device_type, fail)
    \/ \E d \in Devices, fail \in BOOLEAN : RemoveDevice(d, fail)
    \/ \E r \in RemoteResponses, fail \in BOOLEAN : SyncFromNetbox(r, fail)
    \/ \E r \in RemoteResponses, fail \in BOOLEAN : SyncFromNautobot(r, fail)
    \/ \E g \in {"all", "cisco"}, fail \in BOOLEAN :
            runs < MaxRuns /\ Validate(g, "running", TRUE, fail)

SpecInventory == Init /\ [][NextInventory]_vars

\* compare_configurations as a function of the two texts: the validator is
\* constructed, rtr-01's running configuration and its baseline are any two
\* texts (or no baseline is saved), and the gateway is up or down.
InitCompare ==
    /\ hostsFile = [exists |-> TRUE, hosts |-> DefaultHosts]
    /\ groupsFile = "ok"
    /\ defaultsFile = "ok"
    /\ nr = [ready |-> TRUE, hosts |-> DefaultHosts]
    /\ \E b \in Texts : baselines \in {<<>>, Put(<<>>, <<"rtr-01", "running">>, b)}
    /\ metadata = <<>>
    /\ \E l \in Texts : live = [DefaultLive EXCEPT !["rtr-01"].running = l]
    /\ gwDown \in {{}, {"rtr-01"}}
    /\ clock = 0
    /\ resultsFiles = <<>>
    /\ runs = 0
    /\ reportsDir = <<>>
    /\ pending = <<>>
    /\ ret = NoRet

NextCompare == Compare("rtr-01", "running")

SpecCompare == InitCompare /\ [][NextCompare]_vars

\* The (device, config type) keys the baseline specification saves under.
BaselineKeys == {<<"rtr-01", "startup">>, <<"rtr-01", "running">>, <<"sw-01", "startup">>}

\* The Baseline Store beside the comparisons: baselines are saved and saved
\* again, with and without storage failures, and compared between the saves.
NextBaseline ==
    \/ NewValidator
    \/ \E k \in BaselineKeys, text \in SysTexts, fail \in SaveFailures :
            SaveSourceOfTruthConfig(k[1], text, k[2], fail)
    \/ \E k \in BaselineKeys : Compare(k[1], k[2])
    \/ \E fail \in BOOLEAN : runs < MaxRuns /\ Validate("all", "startup", TRUE, fail)
    \/ GatewayFail("rtr-01")
    \/ GatewayRecover("rtr-01")

SpecBaseline == Init /\ [][NextBaseline]_vars

\* The validation runs: over one device or two, with baselines saved for some
\* config types of rtr-01, every selector, and runs that fail as a whole.
NextRun ==
    \/ NewValidator
    \/ RemoveDevice("sw-01", FALSE)
    \/ \E t \in CfgTypes : SaveSourceOfTruthConfig("rtr-01", <<"x">>, t, "none")
    \/ \E g \in GroupSelectors, t \in CfgSelectors \cup {"startup"},
          dry \in BOOLEAN, fail \in BOOLEAN :
            runs < MaxRuns /\ Validate(g, t, dry, fail)
    \/ \E g \in GroupSelectors, t \in CfgSelectors, dry \in BOOLEAN, e \in RunExceptions :
            ValidateRaises(g, t, dry, e)

SpecRun == Init /\ [][NextRun]_vars

\* The states an inventory record can be found in: "corrupt" is a file that
\* exists and cannot be read or parsed.
FileStates == {"absent", "ok", "corrupt"}

\* The inventory operations on any state of the three records: the hosts
\* record is missing or holds the default hosts, the two others are missing,
\* readable or unreadable.
InitRecords ==
    /\ hostsFile \in {[exists |-> FALSE, hosts |-> <<>>],
                      [exists |-> TRUE, hosts |-> DefaultHosts]}
    /\ groupsFile \in FileStates
    /\ defaultsFile \in FileStates
    /\ nr = [ready |-> FALSE, hosts |-> <<>>]
    /\ baselines = <<>>
    /\ metadata = <<>>
    /\ live = DefaultLive
    /\ gwDown = {}
    /\ clock = 0
    /\ resultsFiles = <<>>
    /\ runs = 0
    /\ reportsDir = <<>>
    /\ pending = <<>>
    /\ ret = NoRet

NextRecords ==
    \/ NewValidator
    \/ \E e \in NewEntries, fail \in BOOLEAN :
            AddDevice(e.name, e.hostname, e.groups, e.vendor, e.device_type, fail)
    \/ \E d \in Devices, fail \in BOOLEAN : RemoveDevice(d, fail)

SpecRecords == InitRecords /\ [][NextRecords]_vars

\* The formats a report is asked in, and the batches it is asked for: the
\* empty batch, the batches of the history and the batch of a failed run.
RequestedFormats == Range(ReportFormats) \cup {"pdf"}
ReportableBatches ==
    {<<>>} \cup Range(resultsFiles) \cup {ValidationFailure(e) : e \in RunExceptions}

\* The reports beside the runs they are made of: a baseline is saved, a run is
\* made, reports are generated in every format and read back, and a device
\* the inventory does not hold is removed and compared.
NextReports ==
    \/ NewValidator
    \/ SaveSourceOfTruthConfig("rtr-01", <<"x">>, "running", "none")
    \/ \E t \in {"all", "running"} : runs < MaxRuns /\ Validate("all", t, FALSE, FALSE)
    \/ Tick
    \/ \E b \in ReportableBatches, f \in RequestedFormats, fail \in BOOLEAN :
            /\ Cardinality(DOMAIN reportsDir) < MaxReports
            /\ GenerateValidationReport(b, f, fail)
    \/ \E id \in 0..MaxClock : GetReport(id)
    \/ RemoveDevice("fw-01", FALSE)
    \/ Compare("fw-01", "running")

SpecReports == Init /\ [][NextReports]_vars

\* The manufacturer names a remote listing is answered with: one per key of
\* the table, names holding two keys, and names holding none.
Manufacturers ==
    {"Cisco", "Juniper Networks", "Arista", "HP", "Huawei", "Fortinet",
     "Palo Alto Networks", "MikroTik", "F5", "NXOS", "IOSXR",
     "Cisco NXOS", "NXOS by Arista", "F5 on HP", "Acme", "Hewlett Packard", ""}

\* A listing of one device of the manufacturer.
ListingOf(manufacturer) ==
    [ok |-> TRUE,
     devices |-> << RemoteDevice("dev-01", "10.0.0.9", "dev-01", manufacturer, "Router") >>]

\* The vendor mapping as the syncs apply it: a device of any manufacturer is
\* listed by either source and written to the hosts record.
NextMapping ==
    \/ \E m \in Manufacturers, fail \in BOOLEAN : SyncFromNetbox(ListingOf(m), fail)
    \/ \E m \in Manufacturers, fail \in BOOLEAN : SyncFromNautobot(ListingOf(m), fail)

SpecMapping == Init /\ [][NextMapping]_vars

\* Two callers on the default inventory, one operation each, their loads and
\* saves in any order.
NextRace ==
    \/ Cardinality(DOMAIN pending) = 0 /\ NewValidator
    \/ \E p \in Processes, e \in NewEntries :
            BeginAddDevice(p, e.name, e.hostname, e.groups, e.vendor, e.device_type)
    \/ \E p \in Processes, d \in Devices : BeginRemoveDevice(p, d)
    \/ \E p \in Processes, r \in RemoteResponses : BeginSync(p, "netbox", r)
    \/ \E p \in Processes, fail \in BOOLEAN : FinishSave(p, fail)

SpecRace == Init /\ [][NextRace]_vars

(***************************************************************************)
(* Claims.                                                                 *)
(***************************************************************************)
\* The results a returned value holds: the one of a comparison, the batch of a run.
Produced ==
    IF ret.op = "compare" THEN {ret.value}
    ELSE IF ret.op = "validate" THEN Range(ret.value)
    ELSE {}

\* The live text a comparison read, and whether both sides were there.
LiveText == DictGet(ret.fetched, ret.config_type, <<>>)
FetchSucceeded == DOMAIN ret.fetched # {}

\* The whole text without its leading and trailing whitespace, stated by position.
Trimmed(t) ==
    LET solid == {i \in 1..Len(t) : ~IsSpace(t[i])}
    IN IF solid = {} THEN <<>>
       ELSE SubSeq(t, CHOOSE i \in solid : \A j \in solid : i <= j,
                      CHOOSE i \in solid : \A j \in solid : j <= i)

\* The lines of a text: its maximal stretches without a line break.
LinesOf(t) ==
    {SubSeq(t, i, j - 1) : <<i, j>> \in
        {p \in (1..Len(t) + 1) \X (1..Len(t) + 1) :
            /\ p[1] <= p[2]
            /\ p[1] = 1 \/ t[p[1] - 1] = "\n"
            /\ p[2] = Len(t) + 1 \/ t[p[2]] = "\n"
            /\ \A k \in p[1]..(p[2] - 1) : t[k] # "\n"}}

\* What C5 says of a comparison of the baseline text sot with the live text.
IsDiffOf(r, sot, live_text) ==
    LET sot_lines == LinesOf(Trimmed(sot))
        live_lines == LinesOf(Trimmed(live_text))
    IN /\ r.status = "success"
       /\ r.missing_lines = {l \in sot_lines : l \notin live_lines}
       /\ r.extra_lines = {l \in live_lines : l \notin sot_lines}
       /\ r.drift_detected <=> (r.missing_lines # {} \/ r.extra_lines # {})
       /\ (sot = ExampleSot /\ live_text = ExampleLive)
            => /\ r.missing_lines = {<<"1">>}
               /\ r.extra_lines = {<<"4">>}
               /\ r.drift_detected

\* C1: when the gateway fetch fails, compare_configurations returns status
\* 'error', drift_detected false and an issues list holding the gateway error,
\* whether or not a baseline exists.
C1_FetchFailureIsError ==
    (ret.op = "compare" /\ ret.gateway_failed)
        => /\ ret.value.status = "error"
           /\ ~ret.value.drift_detected
           /\ ret.value.issues # <<>>

\* C2: in a run over several devices a gateway failure on one device does not
\* stop the run: there is one result per (device, config type), the failing
\* device's results have status 'error', and the other devices' results are
\* what they would be had no device failed.
C2_PartialFailureIsolation ==
    (/\ ret.op = "validate"
     /\ Len(ret.devices) > 1
     /\ \E d \in Range(ret.devices) : d \in ret.down)
        => LET types == ConfigTypes(ret.config_type)
               healthy == CompareAll(nr, {}, live, baselines, clock, ret.devices, types)
           IN /\ Len(ret.value) = Len(ret.devices) * Len(types)
              /\ \A i \in DOMAIN ret.value :
                    IF ret.devices[((i - 1) \div Len(types)) + 1] \in ret.down
                    THEN ret.value[i].status = "error"
                    ELSE ret.value[i] = healthy[i]

\* C3: a comparison for which no baseline has been saved returns status
\* 'error', drift_detected false, and an issues list of exactly one entry, the
\* 'no source of truth' message.
C3_NoBaselineContract ==
    (ret.op = "compare" /\ ~ret.sot.some)
        => /\ ret.value.status = "error"
           /\ ~ret.value.drift_detected
           /\ ret.value.issues = <<MsgNoSot>>

\* C4: every result of compare_configurations or validate_configurations with
\* status 'error' has drift_detected false and a non-empty issues list.
C4_ErrorResultInvariant ==
    \A r \in Produced :
        r.status = "error" => (~r.drift_detected /\ r.issues # <<>>)

\* C5 as stated: when the fetch succeeded and a baseline is saved, the result
\* is the set difference of the two line sets, with status 'success'.
C5_DiffWheneverBaselineSaved ==
    (ret.op = "compare" /\ FetchSucceeded /\ ret.sot.some)
        => IsDiffOf(ret.value, ret.sot.val, LiveText)

\* C5 as amended: when the fetch succeeded and a baseline with a non-empty text
\* is saved, the result has status 'success', missing_lines is the set of
\* baseline lines not among the live lines, extra_lines the set of live lines
\* not among the baseline lines, and drift_detected holds exactly when one of
\* the two is non-empty (line1..line3 against line2..line4: {line1}, {line4}).
C5_DiffOfNonEmptyBaseline ==
    (ret.op = "compare" /\ FetchSucceeded /\ ret.sot.some /\ ret.sot.val # <<>>)
        => IsDiffOf(ret.value, ret.sot.val, LiveText)

\* C5's case: the concrete scenario has been compared and found to drift.
C5_Witness ==
    /\ ret.op = "compare"
    /\ FetchSucceeded
    /\ ret.sot = Some(ExampleSot)
    /\ LiveText = ExampleLive
    /\ ret.value.missing_lines = {<<"1">>}
    /\ ret.value.extra_lines = {<<"4">>}

\* The lines of a text, each trimmed of its surrounding whitespace.
PerLineTrimmed(t) == [i \in DOMAIN Split(t) |-> Strip(Split(t)[i])]

NoDrift(r) == ~r.drift_detected /\ r.missing_lines = {} /\ r.extra_lines = {}

\* C6: each line of both texts is trimmed before comparison, so a baseline and
\* a live text whose lines differ only in leading or trailing whitespace
\* compare with drift_detected false and empty missing/extra lists.
C6_PerLineTrim ==
    (/\ ret.op = "compare"
     /\ FetchSucceeded
     /\ ret.sot.some /\ ret.sot.val # <<>>
     /\ PerLineTrimmed(ret.sot.val) = PerLineTrimmed(LiveText))
        => NoDrift(ret.value)

\* A text that does not end in a line break: str.split and every other way of
\* cutting it into lines agree on its lines.
NoFinalBreak(t) == t = <<>> \/ t[Len(t)] # "\n"

\* C7: the result depends only on the set of distinct lines of each side: a
\* live text with the baseline's lines reordered or repeated compares with
\* drift_detected false and empty missing/extra lists.
C7_OrderAndDuplicatesIrrelevant ==
    (/\ ret.op = "compare"
     /\ FetchSucceeded
     /\ ret.sot.some /\ ret.sot.val # <<>>
     /\ NoFinalBreak(ret.sot.val) /\ NoFinalBreak(LiveText)
     /\ Range(Split(ret.sot.val)) = Range(Split(LiveText)))
        => NoDrift(ret.value)

\* C8: validate_configurations('all', ...) returns results for exactly the
\* devices stored in the Inventory Store when the run starts.
C8_RunUsesStoredInventory ==
    (ret.op = "validate" /\ ret.device_group = "all")
        => {r.device : r \in Range(ret.value)} = Range(HostNames(GetInventoryHosts))

\* C9: once a ValidationBatch is persisted, no later run modifies or replaces
\* it: every stored batch is still stored, with the same results, after any step.
C9_BatchesAreReadOnly ==
    [][\A ts \in DOMAIN resultsFiles :
          ts \in DOMAIN resultsFiles' /\ resultsFiles'[ts] = resultsFiles[ts]]_vars

\* C10: a storage failure is surfaced: when writing the hosts record fails,
\* add_device, remove_device and the syncs return False, and when writing the
\* batch fails validate_configurations does not return what a successful run does.
C10_StorageFailureSurfaced ==
    /\ (ret.op \in {"add_device", "remove_device", "sync"} /\ ret.write_failed)
          => ret.value = FALSE
    /\ (ret.op = "validate" /\ ret.write_failed)
          => ret.value # CompareAll(nr, ret.down, live, baselines, clock,
                                    ret.devices, ConfigTypes(ret.config_type))

\* C11: add_device and remove_device are single-record mutations: whatever the
\* state of the three inventory records, every stored entry other than the
\* named one is still stored, with the same fields, after the call.
C11_SingleRecordMutation ==
    [][ret'.op \in {"add_device", "remove_device"}
          => \A i \in DOMAIN hostsFile.hosts :
                hostsFile.hosts[i].name # ret'.device
                    => \E j \in DOMAIN hostsFile'.hosts :
                          hostsFile'.hosts[j] = hostsFile.hosts[i]]_vars

\* C12: when a sync fails because the remote call errors or returns a
\* non-success status, the stored device set is what it was before the sync
\* and the operation reports failure.
C12_FailedSyncLeavesInventory ==
    [][(ret'.op = "sync" /\ ~ret'.response.ok)
          => (hostsFile' = hostsFile /\ ret'.value = FALSE)]_vars

\* C12's case: a sync has failed on a store that holds a device added before.
C12_Witness ==
    /\ ret.op = "sync"
    /\ ~ret.response.ok
    /\ ret.value = FALSE
    /\ HasHost(hostsFile.hosts, "fw-01")

\* C13: after a sync that reports success the stored devices are exactly the
\* mapped records of the remote response, one per named remote device, and no
\* device stored before remains unless the response holds it.
C13_SyncReplacesDeviceSet ==
    (ret.op = "sync" /\ ret.value = TRUE)
        => hostsFile = [exists |-> TRUE, hosts |-> MapRemoteDevices(ret.response.devices)]

\* The keys of the Baseline Store.
AllKeys == Devices \X CfgTypes

\* What load_source_of_truth_config returns for a key before and after a step.
Loaded(k) == LoadSourceOfTruthConfig(baselines, k[1], k[2])
LoadedNext(k) == LoadSourceOfTruthConfig(baselines', k[1], k[2])

CompareNow(d, t) == CompareConfigurations(nr, gwDown, live, baselines, clock, d, t)

C16_ComparisonsLeaveBaselines ==
    [][ret'.op \in {"compare", "validate"}
          => (baselines' = baselines /\ metadata' = metadata)]_vars

\* C16's case: a device without a baseline has been compared, its live text
\* was fetched, and it still has neither baseline nor metadata.
C16_Witness ==
    /\ ret.op = "compare"
    /\ FetchSucceeded
    /\ ~ret.sot.some
    /\ <<ret.device, ret.config_type>> \notin DOMAIN baselines
    /\ <<ret.device, ret.config_type>> \notin DOMAIN metadata
    /\ baselines # <<>>

\* The config types a selector stands for, as the claims state them.
ResolvedTypes(selector) ==
    IF selector = "all" THEN <<"running", "startup">> ELSE <<selector>>

\* C17: config type 'all' expands to exactly running and startup, in that
\* order, for each selected device, and never to candidate; any other config
\* type gives exactly one result per device.
C17_AllExpandsToRunningStartup ==
    (ret.op = "validate" /\ ~ret.raised)
        => LET types == ResolvedTypes(ret.config_type)
           IN /\ Len(ret.value) = Len(ret.devices) * Len(types)
              /\ \A i \in DOMAIN ret.devices, j \in DOMAIN types :
                    ret.value[(i - 1) * Len(types) + j] = CompareNow(ret.devices[i], types[j])

\* C17's case: a run with 'all' over a single device whose three config types
\* compare differently: two results, and the candidate one is not among them.
C17_Witness ==
    /\ ret.op = "validate" /\ ~ret.raised
    /\ ret.config_type = "all"
    /\ Len(ret.devices) = 1
    /\ Len(ret.value) = 2
    /\ ret.value[1] # ret.value[2]
    /\ CompareNow(ret.devices[1], "candidate") \notin Range(ret.value)

\* C18: the batch a run returns holds one result per (selected device,
\* resolved config type), ordered by device and then by config type, and that
\* same list is what is persisted as the run's batch.
C18_BatchOrderedAndPersisted ==
    (ret.op = "validate" /\ ~ret.raised)
        => LET n == Len(ResolvedTypes(ret.config_type))
           IN /\ Len(ret.value) = Len(ret.devices) * n
              /\ \A k \in DOMAIN ret.value :
                    ret.value[k].device = ret.devices[((k - 1) \div n) + 1]
              /\ clock \in DOMAIN resultsFiles
              /\ resultsFiles[clock] = ret.value

\* The hosts of the validator's inventory whose group list holds the selector.
InGroup(hosts, selector) ==
    SelectSeq(hosts, LAMBDA h : \E i \in DOMAIN h.groups : h.groups[i] = selector)

\* C19: the device set of a run is every device for 'all', and otherwise
\* exactly the devices whose group list contains the selector as an exact,
\* case-sensitive string.
C19_GroupSelectsByExactName ==
    (ret.op = "validate" /\ ~ret.raised)
        => ret.devices = IF ret.device_group = "all" THEN HostNames(nr.hosts)
                         ELSE HostNames(InGroup(nr.hosts, ret.device_group))

\* C20: a run that fails as a whole returns exactly one result, with device
\* 'unknown', status 'error', drift_detected false and issues that describe
\* the failure; it does not return an empty list.
C20_TotalFailureSentinel ==
    (ret.op = "validate" /\ ret.raised)
        => /\ Len(ret.value) = 1
           /\ ret.value[1].device = "unknown"
           /\ ret.value[1].status = "error"
           /\ ~ret.value[1].drift_detected
           /\ \E e \in RunExceptions : ret.value[1].issues = <<<<"Validation error", e>>>>

\* C20's case: a run has failed as a whole and returned the sentinel.
C20_Witness ==
    /\ ret.op = "validate"
    /\ ret.raised
    /\ Len(ret.value) = 1
    /\ ret.value[1].device = "unknown"


\* C21: dry_run has no effect.  From any state, a run with dry_run set and the
\* same run with dry_run cleared return the same batch and leave the same
\* batch files; and what a finished run returned and left is what the run
\* with the other dry_run value returns and leaves.
C21_DryRunHasNoEffect ==
    /\ nr.ready =>
            \A g \in GroupSelectors, t \in CfgSelectors \cup {"startup"}, fail \in BOOLEAN :
                RunOutcome(g, t, TRUE, fail) = RunOutcome(g, t, FALSE, fail)
    /\ (ret.op = "validate" /\ ~ret.raised) =>
            LET other == RunOutcome(ret.device_group, ret.config_type,
                                    ~ret.dry_run, ret.write_failed)
            IN /\ ret.value = other.value
               /\ resultsFiles = other.files

C21_Witness ==
    /\ ret.op = "validate" /\ ~ret.raised /\ ~ret.dry_run /\ ~ret.write_failed
    /\ ret.value # <<>>
    /\ clock \in DOMAIN resultsFiles /\ resultsFiles[clock] = ret.value
    /\ \E r \in Range(ret.value) : r.status = "success"


\* C22: the issues of a successful comparison are 'Missing N lines from source
\* of truth' exactly when lines are missing, N being the number of distinct
\* missing lines, followed by 'Extra N lines not in source of truth' exactly
\* when lines are extra: at most two entries, and none exactly when
\* drift_detected is false.
C22_IssuesSummariseTheTwoDifferences ==
    \A r \in Produced :
        r.status = "success" =>
            LET missing == IF r.missing_lines # {}
                           THEN << <<"Missing", Cardinality(r.missing_lines),
                                     "lines from source of truth">> >>
                           ELSE <<>>
                extra == IF r.extra_lines # {}
                         THEN << <<"Extra", Cardinality(r.extra_lines),
                                   "lines not in source of truth">> >>
                         ELSE <<>>
            IN /\ r.issues = missing \o extra
               /\ Len(r.issues) <= 2
               /\ (r.issues = <<>>) <=> ~r.drift_detected

C22_Witness ==
    /\ ret.op = "compare" /\ FetchSucceeded
    /\ ret.value.status = "success"
    /\ Cardinality(ret.value.missing_lines) = 2
    /\ ret.value.extra_lines # {}
    /\ Len(ret.value.issues) = 2


\* C23: every public operation returns a structured outcome and lets no
\* exception propagate: get_report on an unknown id and
\* generate_validation_report with an unsupported format return a value, as
\* remove_device and compare_configurations on an unknown device do.
C23_NoOperationRaises ==
    /\ ret.op \in {"init", "generate_report", "get_report"} => ~ret.raised
    /\ ret.op = "remove_device" => ret.value \in BOOLEAN
    /\ ret.op = "compare" => ret.value.status \in {"success", "error"}


\* Whether what a report shows as its success rate denotes (total - errors) /
\* total, 0 when total is 0: a percentage in tenths or a quotient a/b.
DenotesSuccessRate(shown, total, errors) ==
    IF Len(shown) = 2
    THEN IF total = 0 THEN shown[1] = 0
         ELSE \E p \in 0..1000 :
                 /\ shown[1] = p
                 /\ 2 * total * p <= 2000 * (total - errors) + total
                 /\ 2000 * (total - errors) + total < 2 * total * (p + 1)
    ELSE /\ shown[3] # 0
         /\ shown[1] * total = (total - errors) * shown[3]

\* C24: every report encoding (json, csv, xlsx, html) surfaces the total
\* count, the drift count, the error count and the success rate
\* (total - errors) / total, which is 0 for the empty batch; no encoder fails
\* on a division.
C24_AggregatesInEveryEncoding ==
    /\ \A k \in DOMAIN reportsDir :
           LET report == reportsDir[k]
               total == Len(report.results)
               errors == Cardinality({i \in DOMAIN report.results :
                                         report.results[i].status = "error"})
               drift == Cardinality({i \in DOMAIN report.results :
                                        report.results[i].drift_detected})
           IN /\ {"total_devices", "devices_with_drift", "devices_with_errors",
                  "success_rate"} \subseteq DOMAIN report.summary
              /\ report.summary.total_devices = total
              /\ report.summary.devices_with_drift = drift
              /\ report.summary.devices_with_errors = errors
              /\ DenotesSuccessRate(report.summary.success_rate, total, errors)
    /\ (ret.op = "generate_report" /\ ret.raised) => ret.value # "ZeroDivisionError"


\* C25: whenever a ConfigValidator has been constructed, whatever inventory
\* operations came before (the removal of every device, a sync that returned
\* no device), the registry it validates against holds at least one device.
C25_RegistryNeverEmpty ==
    (ret.op = "init" /\ ~ret.raised) => (nr.ready /\ nr.hosts # <<>>)


\* The devices the hosts record holds.
StoredHosts == IF hostsFile.exists THEN hostsFile.hosts ELSE <<>>

\* C26: remove_device on a name the stored device set does not hold returns
\* False, raises nothing and writes nothing: the hosts record is left as it
\* was, missing if it was missing.
C26_RemoveUnknownIsNoOp ==
    [][(ret'.op = "remove_device" /\ ~HasHost(StoredHosts, ret'.device))
          => (ret'.value = FALSE /\ hostsFile' = hostsFile)]_vars

C26_Witness ==
    /\ ret.op = "remove_device" /\ ret.device = "fw-01" /\ ret.value = FALSE
    /\ hostsFile.exists /\ HostNames(hostsFile.hosts) = <<"rtr-01", "sw-01">>
    /\ groupsFile = "ok" /\ defaultsFile = "ok"


\* The keys of the vendor table in the order the claim declares them.
ClaimedKeyOrder ==
    <<"cisco", "juniper", "arista", "hp", "huawei", "fortinet", "palo alto",
      "mikrotik", "f5", "nxos", "iosxr">>

\* key occurs in text, character by character from some position on.
OccursIn(key, text) ==
    \E start \in 1..(Len(text) - Len(key) + 1) :
        \A k \in 1..Len(key) : text[start + k - 1] = key[k]

\* C27: the driver of a synced device is that of the first table entry, in the
\* declaration order cisco, juniper, arista, hp, huawei, fortinet, palo alto,
\* mikrotik, f5, nxos, iosxr, whose key is a substring of the lower-cased
\* manufacturer name, and 'ios' when no key is; a name holding several keys
\* gets the driver of the earliest.
C27_FirstTableEntryWins ==
    /\ [i \in DOMAIN DriverMapping |-> DriverMapping[i][1]] = ClaimedKeyOrder
    /\ (ret.op = "sync" /\ ret.value /\ ~ret.write_failed) =>
           \A n \in DOMAIN ret.response.devices :
              LET dev == ret.response.devices[n]
                  name == CharsOf(Lower(dev.manufacturer))
                  held == {i \in DOMAIN ClaimedKeyOrder :
                              OccursIn(CharsOf(ClaimedKeyOrder[i]), name)}
              IN \A h \in Range(hostsFile.hosts) :
                    h.name = dev.name =>
                       /\ held = {} => h.device_type = "ios"
                       /\ \A i \in held :
                             (\A j \in held : i <= j) => h.device_type = DriverMapping[i][2]

C27_Witness ==
    /\ ret.op = "sync" /\ ret.value /\ ~ret.write_failed
    /\ \E h \in Range(hostsFile.hosts) :
          /\ h.vendor = "nxos by arista"
          /\ OccursIn(CharsOf("nxos"), CharsOf(h.vendor))
          /\ OccursIn(CharsOf("arista"), CharsOf(h.vendor))
          /\ h.device_type = "eos"


\* What an operation writes, computed from the hosts it loaded itself.
OwnResult(o) ==
    CASE o.op = "add_device" -> DictSet(o.loaded, o.arg)
      [] o.op = "remove_device" -> DictDel(o.loaded, o.arg)
      [] o.op = "sync" -> MapRemoteDevices(o.arg.devices)

\* C28: inventory writes are unguarded and the last write wins.  When two
\* operations interleave their loads and saves, each save that goes through
\* leaves exactly the device set its own operation computed from its own
\* load, with nothing merged in from the record it overwrites: after both
\* have finished the record is what the last save wrote, and the other
\* operation's change may be gone.
C28_LastWriteWins ==
    [][\A p \in Processes :
          (/\ p \in DOMAIN pending /\ pending[p].pc = "loaded"
           /\ pending'[p].pc = "done" /\ ~ret'.write_failed)
          => /\ hostsFile'.exists
             /\ hostsFile'.hosts = OwnResult(pending[p])
             /\ \A q \in Processes \ {p} : q \in DOMAIN pending => pending'[q] = pending[q]]_vars

C28_Witness ==
    /\ DOMAIN pending = Processes
    /\ \A p \in Processes : pending[p].pc = "done" /\ ~pending[p].write_failed
    /\ pending[1].op = "add_device" /\ pending[1].arg.name = "fw-01"
    /\ pending[2].op = "remove_device" /\ pending[2].arg = "sw-01"
    /\ pending[1].loaded = DefaultHosts /\ pending[2].loaded = DefaultHosts
    /\ ret.process = 2 /\ ret.value
    /\ HostNames(hostsFile.hosts) = <<"rtr-01">>


\* C29: a baseline that exists with an empty text is handled exactly like a
\* missing one: the comparison reports the error 'No source of truth
\* configuration found' with drift_detected false, the very result it gives
\* when no baseline is stored, and never a comparison against the empty text.
C29_EmptyBaselineIsMissing ==
    (ret.op = "compare" /\ ret.sot.some /\ ret.sot.val = <<>>)
        => /\ ret.value.status = "error"
           /\ ret.value.message = "No source of truth configuration found"
           /\ ~ret.value.drift_detected
           /\ "missing_lines" \notin ret.value.keys
           /\ "extra_lines" \notin ret.value.keys
           /\ ret.value = CompareConfigurations(nr, gwDown, live, <<>>, clock,
                                                ret.device, ret.config_type)

C29_Witness ==
    /\ ret.op = "compare" /\ ret.sot = Some(<<>>)
    /\ <<ret.device, ret.config_type>> \in DOMAIN baselines
    /\ FetchSucceeded /\ LiveText # <<>>
    /\ ret.value.status = "error"


\* C30: a run that ends in total failure persists nothing: the sentinel is
\* returned, no batch is written, and the history is the same before and
\* after.  A batch is written only by a run that has compared every (device,
\* config type) pair: it holds one result per pair, in order.
C30_FailedRunPersistsNothing ==
    [][/\ (ret'.op = "validate" /\ ret'.raised)
           => /\ Len(ret'.value) = 1 /\ ret'.value[1].device = "unknown"
              /\ resultsFiles' = resultsFiles
              /\ GetValidationHistory' = GetValidationHistory
       /\ resultsFiles' # resultsFiles
           => /\ ret'.op = "validate" /\ ~ret'.raised
              /\ \E t \in DOMAIN resultsFiles' :
                    /\ resultsFiles'[t] = ret'.value
                    /\ \A u \in DOMAIN resultsFiles \ {t} : resultsFiles'[u] = resultsFiles[u]
              /\ LET types == ResolvedTypes(ret'.config_type)
                     n == Len(types)
                 IN /\ Len(ret'.value) = Len(ret'.devices) * n
                    /\ \A k \in DOMAIN ret'.value :
                          ret'.value[k].device = ret'.devices[((k - 1) \div n) + 1]]_vars

C30_Witness ==
    /\ ret.op = "validate" /\ ret.raised
    /\ ret.value[1].device = "unknown"
    /\ DOMAIN resultsFiles # {}
    /\ \A t \in DOMAIN resultsFiles :
          resultsFiles[t] # ret.value /\ Len(resultsFiles[t]) >= 2

=============================================================================
